---- MODULE Spec2Model ----
(***************************************************************************)
(* Model of the AI Virtual Interviewer (app.py, utils.py).                 *)
(*                                                                         *)
(* app.py is a Streamlit script: every user interaction runs the script    *)
(* once from top to bottom against st.session_state.  One action of the    *)
(* model is one such run, for one widget interaction.                      *)
(*                                                                         *)
(* Texts (questions, answers, reports, the credential) are sequences of    *)
(* tokens, so that the empty string is <<>>, str.strip() and the f-string  *)
(* error formats are computed, and Python's None is a value no text        *)
(* equals.                                                                 *)
(***************************************************************************)
EXTENDS Integers, Sequences, FiniteSets, TLC

VARIABLES
    chat_history,       \* st.session_state.chat_history: list of (question, answer)
    current_question,   \* st.session_state.current_question
    interview_active,   \* st.session_state.interview_active
    question_count,     \* st.session_state.question_count
    evaluation,         \* st.session_state.evaluation
    job_profile,        \* value of the "Select Job Profile" selectbox
    api_key,            \* os.getenv("GOOGLE_API_KEY")
    audio,              \* value returned by mic_recorder(key='recorder')
    calls,              \* calls made by the latest script run, in order
    lastOp,             \* the widget interaction the latest script run served
    sessionRole,        \* job_profile as it was when Start Interview last took effect
    failures,           \* failing model/transcription calls since Start Interview
    prevStatus,         \* the status the latest script run started from
    tr,                 \* one call of transcribe_audio, statement by statement
    files,              \* the documents in data/, as written by save_session
    clock,              \* datetime.now(), in ticks
    sessions            \* per user of the server: the save_session calls of the session

\* the variables of one user's script runs
app_vars == <<chat_history, current_question, interview_active, question_count,
              evaluation, job_profile, api_key, audio, calls, lastOp,
              sessionRole, failures, prevStatus>>

\* the variables the script runs of one user leave alone: a call of
\* transcribe_audio is followed statement by statement in SpecTranscribe,
\* the data/ directory shared by the users of the server in SpecArchive
other_vars == <<tr, files, clock, sessions>>

vars == <<chat_history, current_question, interview_active, question_count,
          evaluation, job_profile, api_key, audio, calls, lastOp,
          sessionRole, failures, prevStatus, tr, files, clock, sessions>>

session_state == <<chat_history, current_question, interview_active,
                   question_count, evaluation>>

-----------------------------------------------------------------------------
(* Bounds of the model *)

\* failing get_ai_question / transcribe_audio / evaluate_interview calls
\* explored within one session
MaxFailures == 2

\* the latest reading of the clock, in ticks
MaxInstant == 2

\* users of the server whose sessions complete
NumUsers == 2

\* clock ticks in one second
TicksPerSecond == 2

-----------------------------------------------------------------------------
(* Values *)

\* Python None
None == <<"None">>

\* Python truthiness of an Optional[str]: None and "" are falsy
Truthy(v) == v # None /\ v # <<>>

\* the options of the selectbox (a subset of the eight; the first is the default)
JobProfiles == {<<"Software", " ", "Engineer">>, <<"Data", " ", "Scientist">>}

DefaultProfile == <<"Software", " ", "Engineer">>

\* what the hosting environment may hold in GOOGLE_API_KEY
ApiKeys == {None, <<>>, <<"key">>}

\* the number of questions of an interview
QuestionTarget == 7

\* texts a model may answer a question prompt with
QuestionTexts == {<<"Q">>}

\* texts a model may answer an evaluation prompt with: a report, or nothing
ReportTexts == {<<"R">>, <<>>}

\* response.text of the transcription model, before strip()
RawTexts == {<<"a">>, <<" ", "a", "\n">>}

\* texts recognize_google may return
RecognizedTexts == {<<"a">>}

\* readings of datetime.now(), in ticks
Instants == 0..MaxInstant

\* str(e) of an exception
ErrorTexts == {"e"}

Whitespace == {" ", "\n", "\t"}

-----------------------------------------------------------------------------
(* utils.py *)

\* str.strip()
RECURSIVE LStrip(_)
LStrip(s) == IF s # <<>> /\ Head(s) \in Whitespace THEN LStrip(Tail(s)) ELSE s

RECURSIVE RStrip(_)
RStrip(s) ==
    IF s # <<>> /\ s[Len(s)] \in Whitespace
    THEN RStrip(SubSeq(s, 1, Len(s) - 1)) ELSE s

Strip(s) == RStrip(LStrip(s))

get_llm(key, provider) ==
    IF provider = "OpenAI" THEN "ChatOpenAI"
    ELSE IF provider = "Gemini" THEN "ChatGoogleGenerativeAI"
    ELSE "None"

\* outcomes of chain.invoke: it returns a text or raises
InvokeOutcomes(texts) ==
    [raises : {FALSE}, text : texts, err : {"e"}]
        \cup [raises : {TRUE}, text : {<<>>}, err : ErrorTexts]

\* get_ai_question with an except branch that returns nothing
get_ai_question_ReturnsNone(profile, history, key, provider, o) ==
    IF get_llm(key, provider) = "None"
    THEN <<"Error: Invalid API Key or Provider">>
    ELSE IF o.raises THEN None ELSE o.text

\* get_ai_question with the except branch of evaluate_interview pasted in
get_ai_question_EvaluationMessage(profile, history, key, provider, o) ==
    IF get_llm(key, provider) = "None"
    THEN <<"Error: Invalid API Key or Provider">>
    ELSE IF o.raises
    THEN <<"Error generating evaluation: ", o.err,
           ". Please check your API Key in .env file.">>
    ELSE o.text

get_ai_question(profile, history, key, provider, o) ==
    IF get_llm(key, provider) = "None"
    THEN <<"Error: Invalid API Key or Provider">>
    ELSE IF o.raises
    THEN <<"Error generating question: ", o.err,
           ". Please check your API Key in .env file.">>
    ELSE o.text

evaluate_interview(profile, history, key, provider, o) ==
    IF get_llm(key, provider) = "None"
    THEN <<"Error: Invalid API Key">>
    ELSE IF o.raises
    THEN <<"Error generating evaluation: ", o.err,
           ". Please check your API Key in .env file.">>
    ELSE o.text

\* outcomes of the steps of transcribe_audio, one record per execution path:
\*   primary   generate_content(...) / response.text    returns raw or raises
\*   setup     sr.Recognizer() and the imports of the legacy tier, which
\*             stand outside its try                     ok or raises
\*   tmp       NamedTemporaryFile / write               ok or raises
\*   convert   AudioSegment.from_file / export          ok or raises
\*   recognize sr.AudioFile / record / recognize_google returns rec or raises
\*   cleanup   os.remove of the input file, then of the converted file:
\*             ok, or the first or the second os.remove raises
\* a step the path does not reach is "skip"
TranscribeOutcomes ==
    [primary : {"ok"}, raw : RawTexts, setup : {"skip"}, tmp : {"skip"},
     convert : {"skip"}, recognize : {"skip"}, rec : {<<>>}, cleanup : {"skip"},
     err : {"e"}]
    \cup [primary : {"raise", "skip"}, raw : {<<>>}, setup : {"raise"}, tmp : {"skip"},
          convert : {"skip"}, recognize : {"skip"}, rec : {<<>>}, cleanup : {"skip"},
          err : ErrorTexts]
    \cup [primary : {"raise", "skip"}, raw : {<<>>}, setup : {"ok"}, tmp : {"raise"},
          convert : {"skip"}, recognize : {"skip"}, rec : {<<>>}, cleanup : {"skip"},
          err : ErrorTexts]
    \cup [primary : {"raise", "skip"}, raw : {<<>>}, setup : {"ok"}, tmp : {"ok"},
          convert : {"ok", "raise"}, recognize : {"raise"}, rec : {<<>>},
          cleanup : {"skip"}, err : ErrorTexts]
    \cup {o \in [primary : {"raise", "skip"}, raw : {<<>>}, setup : {"ok"}, tmp : {"ok"},
                 convert : {"ok", "raise"}, recognize : {"ok"}, rec : RecognizedTexts,
                 cleanup : {"ok", "raise_input", "raise_wav"}, err : {"e"}] :
            o.cleanup = "raise_wav" => o.convert = "ok"}

TranscribeError(e) ==
    <<"Error transcribing audio: ", e,
      ". (Note: ffmpeg is required for local processing, or provide a valid Gemini API Key)">>

\* the legacy SpeechRecognition tier
transcribe_legacy(o) ==
    IF o.tmp = "raise" \/ o.recognize = "raise"
    THEN TranscribeError(o.err)
    ELSE o.rec

\* the primary tier is entered exactly when a key is given
PathMatchesKey(key, o) == (o.primary = "skip") <=> ~Truthy(key)

\* the call ends in an exception instead of a return: nothing catches what
\* the statements between the two try blocks raise
transcribe_raises(key, o) == o.setup = "raise"

transcribe_audio(audio_bytes, key, o) ==
    IF Truthy(key) /\ o.primary = "ok"
    THEN Strip(o.raw)
    ELSE transcribe_legacy(o)

\* str.replace(old, new), token by token
RECURSIVE Replace(_, _, _)
Replace(s, old, new) ==
    IF s = <<>> THEN <<>>
    ELSE <<IF Head(s) = old THEN new ELSE Head(s)>> \o Replace(Tail(s), old, new)

\* datetime.now().strftime("%Y%m%d_%H%M%S"): the clock reading t, in ticks,
\* cut down to whole seconds
Strftime(t) == ToString(t \div TicksPerSecond)

\* save_session: the file it opens for writing and the document it dumps;
\* raised tells whether os.makedirs / open / json.dump raised
save_session(profile, history, report, t, raised) ==
    [filename |-> <<"data/interview_">> \o Replace(profile, " ", "_")
                    \o <<"_", Strftime(t), ".json">>,
     data |-> [profile |-> profile, timestamp |-> Strftime(t),
               history |-> history, evaluation |-> report],
     raised |-> raised]

-----------------------------------------------------------------------------
(* app.py: the script run *)

Provider == "Gemini"

\* recorded clips the mic_recorder component may hand back
AudioClips == {<<"webm">>}

\* one entry of calls: the function, the profile and history it was given
\* (None and <<>> when it takes none), what it returned, and whether it
\* raised instead of returning
Call(fn, profile, history, result, raised) ==
    [fn |-> fn, profile |-> profile, history |-> history, result |-> result,
     raised |-> raised]

\* the entry of calls for chain.invoke with outcome o
InvokeCall(o) ==
    Call("chain.invoke", None, <<>>, IF o.raises THEN None ELSE o.text, o.raises)

\* the credential check written as "if api_key is None"
CredentialMissing_NoneOnly(key) == key = None

\* "if not api_key" of the Start Interview handler
CredentialMissing(key) == ~Truthy(key)

\* "if st.session_state.evaluation": the report view is shown
ShowsReport == Truthy(evaluation)

\* the interview view under "if" in place of "elif"
ShowsInterview_NotElif == interview_active

\* "elif st.session_state.interview_active": the interview view is shown
ShowsInterview == ~ShowsReport /\ interview_active

\* st.progress(question_count / 7) raises for a value above 1.0, which ends
\* the script run before the recorder and the Submit Answer button are drawn
ProgressValid(n) == n <= QuestionTarget

\* the interview view drawn whenever interview_active is set
InterviewViewDrawn_IgnoresReport == interview_active /\ ProgressValid(question_count)

\* the recorder and the Submit Answer button are on the page
InterviewViewDrawn == ShowsInterview /\ ProgressValid(question_count)

\* chat_history.insert(0, (current_question, text))
AppendExchange_Prepend(history, q, a) == <<<<q, a>>>> \o history

\* chat_history.append((current_question, text))
AppendExchange(history, q, a) == Append(history, <<q, a>>)

\* "if st.session_state.question_count > 7"
InterviewDone_OffByOne(n) == n > QuestionTarget

\* "if st.session_state.question_count >= 7"
InterviewDone(n) == n >= QuestionTarget

\* the session status the main view dispatch shows
Status ==
    IF ShowsReport THEN "Completed"
    ELSE IF interview_active THEN "Active"
    ELSE "Idle"

Bit(b) == IF b THEN 1 ELSE 0

TranscribeFails(key, o) == o.tmp = "raise" \/ o.recognize = "raise"

\* st.session_state and the widgets when a user opens the page
AppInit ==
    /\ chat_history = <<>>
    /\ current_question = None
    /\ interview_active = FALSE
    /\ question_count = 0
    /\ evaluation = None
    /\ job_profile = DefaultProfile
    /\ audio = None
    /\ calls = <<>>
    /\ lastOp = "init"
    /\ sessionRole = None
    /\ failures = 0
    /\ prevStatus = "Idle"

\* no call of transcribe_audio is being followed
TrIdle ==
    [pc |-> "idle", path |-> None, primary |-> 0, legacy |-> 0, created |-> {},
     exists |-> {}, remove_tried |-> {}, wav_path |-> None, text |-> None,
     result |-> None]

\* an empty data/ directory, and no session has archived
ArchiveInit ==
    /\ files = {}
    /\ clock = 0
    /\ sessions = [u \in 1..NumUsers |-> <<>>]

Init ==
    /\ AppInit
    /\ api_key \in ApiKeys
    /\ tr = TrIdle
    /\ ArchiveInit

\* the user picks another option of the selectbox; no button is pressed
SelectJobProfile ==
    \E r \in JobProfiles \ {job_profile} :
        /\ job_profile' = r
        /\ calls' = <<>>
        /\ lastOp' = "select"
        /\ prevStatus' = Status
        /\ UNCHANGED other_vars
        /\ UNCHANGED <<session_state, api_key, audio, sessionRole, failures>>

\* the user records a clip with the recorder of the interview view
RecordAudio ==
    /\ InterviewViewDrawn
    /\ \E clip \in AudioClips : audio' = clip
    /\ calls' = <<>>
    /\ lastOp' = "record"
    /\ prevStatus' = Status
    /\ UNCHANGED other_vars
    /\ UNCHANGED <<session_state, job_profile, api_key, sessionRole, failures>>

\* Start Interview without "st.session_state.evaluation = None"
StartInterview_KeepsEvaluation ==
    /\ lastOp' = "start"
    /\ prevStatus' = Status
    /\ UNCHANGED other_vars
    /\ IF CredentialMissing(api_key)
       THEN /\ calls' = <<Call("st.error", None, <<>>, None, FALSE)>>
            /\ UNCHANGED <<session_state, sessionRole, failures>>
       ELSE \E o \in InvokeOutcomes(QuestionTexts) :
            LET q == get_ai_question(job_profile, <<>>, api_key, Provider, o) IN
            /\ Bit(o.raises) <= MaxFailures
            /\ interview_active' = TRUE
            /\ chat_history' = <<>>
            /\ question_count' = 0
            /\ current_question' = q
            /\ calls' = <<InvokeCall(o),
                          Call("get_ai_question", job_profile, <<>>, q, FALSE)>>
            /\ sessionRole' = job_profile
            /\ failures' = Bit(o.raises)
            /\ UNCHANGED evaluation
    /\ UNCHANGED <<job_profile, api_key, audio>>

\* sidebar button "Start Interview"
StartInterview ==
    /\ lastOp' = "start"
    /\ prevStatus' = Status
    /\ UNCHANGED other_vars
    /\ IF CredentialMissing(api_key)
       THEN /\ calls' = <<Call("st.error", None, <<>>, None, FALSE)>>
            /\ UNCHANGED <<session_state, sessionRole, failures>>
       ELSE \E o \in InvokeOutcomes(QuestionTexts) :
            LET q == get_ai_question(job_profile, <<>>, api_key, Provider, o) IN
            /\ Bit(o.raises) <= MaxFailures
            /\ interview_active' = TRUE
            /\ chat_history' = <<>>
            /\ question_count' = 0
            /\ evaluation' = None
            /\ current_question' = q
            /\ calls' = <<InvokeCall(o),
                          Call("get_ai_question", job_profile, <<>>, q, FALSE)>>
            /\ sessionRole' = job_profile
            /\ failures' = Bit(o.raises)
    /\ UNCHANGED <<job_profile, api_key, audio>>

\* the branch of Submit Answer taken when the interview is done
SubmitFinish(text, history, n, nfail) ==
    \E o \in InvokeOutcomes(ReportTexts), t \in Instants, raised \in BOOLEAN :
        LET report == evaluate_interview(job_profile, history, api_key, Provider, o)
            saved == save_session(job_profile, history, report, t, raised)
        IN
        /\ nfail + Bit(o.raises) <= MaxFailures
        /\ failures' = nfail + Bit(o.raises)
        /\ evaluation' = report
        /\ calls' = <<Call("transcribe_audio", None, <<>>, text, FALSE),
                      InvokeCall(o),
                      Call("evaluate_interview", job_profile, history, report, FALSE),
                      Call("save_session", job_profile, history, saved, raised)>>
        /\ UNCHANGED current_question

\* the branch of Submit Answer that asks the next question
SubmitContinue(text, history, n, nfail) ==
    \E o \in InvokeOutcomes(QuestionTexts) :
        LET next_q == get_ai_question(job_profile, history, api_key, Provider, o) IN
        /\ nfail + Bit(o.raises) <= MaxFailures
        /\ failures' = nfail + Bit(o.raises)
        /\ current_question' = next_q
        /\ calls' = <<Call("transcribe_audio", None, <<>>, text, FALSE),
                      InvokeCall(o),
                      Call("get_ai_question", job_profile, history, next_q, FALSE)>>
        /\ UNCHANGED evaluation

\* button "Submit Answer" of the interview view
SubmitAnswer ==
    /\ InterviewViewDrawn
    /\ Truthy(audio)
    /\ \E t \in {o \in TranscribeOutcomes :
                    PathMatchesKey(api_key, o) /\ ~transcribe_raises(api_key, o)} :
        LET text == transcribe_audio(audio, api_key, t)
            history == AppendExchange(chat_history, current_question, text)
            n == question_count + 1
            nfail == failures + Bit(TranscribeFails(api_key, t))
        IN
        /\ chat_history' = history
        /\ question_count' = n
        /\ IF InterviewDone(n)
           THEN SubmitFinish(text, history, n, nfail)
           ELSE SubmitContinue(text, history, n, nfail)
    /\ lastOp' = "submit"
    /\ prevStatus' = Status
    /\ UNCHANGED other_vars
    /\ UNCHANGED <<interview_active, job_profile, api_key, audio, sessionRole>>

\* button "Submit Answer" when transcribe_audio raises: the exception ends
\* the script run at the call, before the session state is touched
SubmitAborted ==
    /\ InterviewViewDrawn
    /\ Truthy(audio)
    /\ \E t \in {o \in TranscribeOutcomes :
                    PathMatchesKey(api_key, o) /\ transcribe_raises(api_key, o)} :
        calls' = <<Call("transcribe_audio", None, <<>>, None, TRUE)>>
    /\ lastOp' = "submit_aborted"
    /\ prevStatus' = Status
    /\ UNCHANGED other_vars
    /\ UNCHANGED <<session_state, job_profile, api_key, audio, sessionRole, failures>>

\* Start New Interview that leaves interview_active set
StartNewInterview_KeepsActive ==
    /\ ShowsReport
    /\ evaluation' = None
    /\ calls' = <<>>
    /\ lastOp' = "reset"
    /\ prevStatus' = Status
    /\ UNCHANGED other_vars
    /\ UNCHANGED <<chat_history, current_question, interview_active, question_count,
                   job_profile, api_key, audio, sessionRole, failures>>

\* Start New Interview that also empties chat_history, and nothing else
StartNewInterview_ClearsHistory ==
    /\ ShowsReport
    /\ interview_active' = FALSE
    /\ evaluation' = None
    /\ chat_history' = <<>>
    /\ calls' = <<>>
    /\ lastOp' = "reset"
    /\ prevStatus' = Status
    /\ UNCHANGED other_vars
    /\ UNCHANGED <<current_question, question_count, job_profile,
                   api_key, audio, sessionRole, failures>>

\* button "Start New Interview" of the report view
StartNewInterview ==
    /\ ShowsReport
    /\ interview_active' = FALSE
    /\ evaluation' = None
    /\ calls' = <<>>
    /\ lastOp' = "reset"
    /\ prevStatus' = Status
    /\ UNCHANGED other_vars
    /\ UNCHANGED <<chat_history, current_question, question_count, job_profile,
                   api_key, audio, sessionRole, failures>>

Next ==
    \/ SelectJobProfile
    \/ RecordAudio
    \/ StartInterview
    \/ SubmitAnswer
    \/ SubmitAborted
    \/ StartNewInterview

Spec == Init /\ [][Next]_vars

-----------------------------------------------------------------------------
(* utils.py: one call transcribe_audio(audio, api_key), statement by        *)
(* statement.  tr.path holds the outcomes the steps of the call will meet.  *)

\* the temporary files of the call: the NamedTemporaryFile and the file
\* audio.export writes next to it
TmpInput == "tmp.webm"
TmpWav == "tmp.wav"

\* a call with any credential and any outcomes of its steps
InitTranscribe ==
    /\ AppInit
    /\ api_key \in ApiKeys
    /\ ArchiveInit
    /\ \E o \in TranscribeOutcomes :
         /\ PathMatchesKey(api_key, o)
         /\ tr = [TrIdle EXCEPT !.pc = "call", !.path = o]

TrGoto(pc) == [tr EXCEPT !.pc = pc]

\* "if api_key:" with the test left out
TrCall_NoKeyCheck ==
    /\ tr.pc = "call"
    /\ tr' = TrGoto("primary")
    /\ UNCHANGED <<app_vars, files, clock, sessions>>

\* "if api_key:"
TrCall ==
    /\ tr.pc = "call"
    /\ tr' = TrGoto(IF Truthy(api_key) THEN "primary" ELSE "legacy")
    /\ UNCHANGED <<app_vars, files, clock, sessions>>

\* the Gemini tier: generate_content and "return response.text.strip()", or
\* the except branch that falls through to the legacy tier
TrPrimary ==
    /\ tr.pc = "primary"
    /\ tr' = IF tr.path.primary = "ok"
             THEN [tr EXCEPT !.pc = "returned", !.primary = @ + 1,
                             !.result = Strip(tr.path.raw)]
             ELSE [tr EXCEPT !.pc = "legacy", !.primary = @ + 1]
    /\ UNCHANGED <<app_vars, files, clock, sessions>>

\* sr.Recognizer() and the imports of the legacy tier; what they raise
\* leaves the function
TrLegacySetup ==
    /\ tr.pc = "legacy"
    /\ tr' = IF tr.path.setup = "raise"
             THEN [tr EXCEPT !.pc = "raised", !.legacy = @ + 1]
             ELSE [tr EXCEPT !.pc = "tmp", !.legacy = @ + 1]
    /\ UNCHANGED <<app_vars, files, clock, sessions>>

\* "with tempfile.NamedTemporaryFile(delete=False, suffix=".webm")"
TrTempFile ==
    /\ tr.pc = "tmp"
    /\ tr' = IF tr.path.tmp = "raise"
             THEN [tr EXCEPT !.pc = "returned",
                             !.result = TranscribeError(tr.path.err)]
             ELSE [tr EXCEPT !.pc = "convert",
                             !.created = @ \cup {TmpInput},
                             !.exists = @ \cup {TmpInput}]
    /\ UNCHANGED <<app_vars, files, clock, sessions>>

\* the conversion to WAV and its except branch
TrConvert ==
    /\ tr.pc = "convert"
    /\ tr' = IF tr.path.convert = "ok"
             THEN [tr EXCEPT !.pc = "recognize", !.wav_path = TmpWav,
                             !.created = @ \cup {TmpWav},
                             !.exists = @ \cup {TmpWav}]
             ELSE [tr EXCEPT !.pc = "recognize", !.wav_path = TmpInput]
    /\ UNCHANGED <<app_vars, files, clock, sessions>>

\* "with sr.AudioFile(wav_path) as source"; what it raises is caught by the
\* outer except, which returns the formatted message
TrRecognize ==
    /\ tr.pc = "recognize"
    /\ tr' = IF tr.path.recognize = "ok"
             THEN [tr EXCEPT !.pc = "cleanup", !.text = tr.path.rec]
             ELSE [tr EXCEPT !.pc = "returned",
                             !.result = TranscribeError(tr.path.err)]
    /\ UNCHANGED <<app_vars, files, clock, sessions>>

\* the files the cleanup calls os.remove on, given which os.remove raises
RemoveTried(wav_path, outcome) ==
    IF outcome = "raise_input" \/ wav_path = TmpInput
    THEN {TmpInput} ELSE {TmpInput, wav_path}

\* the files the cleanup removes
Removed(wav_path, outcome) ==
    CASE outcome = "raise_input" -> {}
      [] outcome = "raise_wav" -> {TmpInput}
      [] OTHER -> RemoveTried(wav_path, outcome)

\* the cleanup try block, and "return text"
TrCleanup ==
    /\ tr.pc = "cleanup"
    /\ tr' = [tr EXCEPT !.pc = "returned",
                        !.remove_tried = RemoveTried(tr.wav_path, tr.path.cleanup),
                        !.exists = @ \ Removed(tr.wav_path, tr.path.cleanup),
                        !.result = tr.text]
    /\ UNCHANGED <<app_vars, files, clock, sessions>>

NextTranscribe ==
    \/ TrCall
    \/ TrPrimary
    \/ TrLegacySetup
    \/ TrTempFile
    \/ TrConvert
    \/ TrRecognize
    \/ TrCleanup

SpecTranscribe == InitTranscribe /\ [][NextTranscribe]_vars

-----------------------------------------------------------------------------
(* utils.py: save_session, called by the sessions of the users of one       *)
(* server.  The sessions are separate (st.session_state is per user); the   *)
(* data/ directory and the clock are shared.                                *)

Users == 1..NumUsers

\* answers a completed transcript may hold
ArchiveAnswers == {<<"a">>, TranscribeError("e")}

\* a transcript of QuestionTarget exchanges with the same answer
UniformHistory(answer) == [i \in 1..QuestionTarget |-> <<<<"Q">>, answer>>]

\* open(filename, "w") and json.dump: the document replaces what the file held
WriteFile(dir, name, data) ==
    {f \in dir : f.name # name} \cup {[name |-> name, data |-> data]}

\* time passes
Tick ==
    /\ clock < MaxInstant
    /\ clock' = clock + 1
    /\ UNCHANGED <<app_vars, tr, files, sessions>>

\* the 7th Submit Answer of user u's session reaches save_session
Archive(u) ==
    /\ sessions[u] = <<>>
    /\ \E profile \in JobProfiles, answer \in ArchiveAnswers, raised \in BOOLEAN :
        LET saved == save_session(profile, UniformHistory(answer), <<"R">>,
                                  clock, raised)
        IN
        /\ files' = IF raised THEN files
                    ELSE WriteFile(files, saved.filename, saved.data)
        /\ sessions' = [sessions EXCEPT ![u] = Append(@, saved)]
    /\ UNCHANGED <<app_vars, tr, clock>>

InitArchive ==
    /\ AppInit
    /\ api_key = <<"key">>
    /\ tr = TrIdle
    /\ ArchiveInit

NextArchive ==
    \/ Tick
    \/ \E u \in Users : Archive(u)

SpecArchive == InitArchive /\ [][NextArchive]_vars

\* the statements of the call and the summary transcribe_audio of it the
\* script runs use agree on what the call returns and on whether it raises
TranscribeAgrees ==
    /\ tr.pc = "returned"
         => /\ ~transcribe_raises(api_key, tr.path)
            /\ tr.result = transcribe_audio(audio, api_key, tr.path)
    /\ tr.pc = "raised" => transcribe_raises(api_key, tr.path)

-----------------------------------------------------------------------------
(* Properties *)

\* the entries of a call log cs that are calls of fn
CallsTo(cs, fn) == SelectSeq(cs, LAMBDA c : c.fn = fn)

\* a script run served Start Interview and reached the question generator
StartTookEffect(cs, op) == op = "start" /\ CallsTo(cs, "get_ai_question") # <<>>

\* C1: question_count never exceeds the fixed target 7, whatever the external
\* calls return.
C1_CountWithinTarget == question_count <= QuestionTarget

\* C2: after the 7th submitAnswer the status is Completed and the report is
\* non-empty, and a session enters Completed only there.
C2_SeventhSubmitCompletes ==
    /\ [](lastOp = "submit" /\ question_count = QuestionTarget
            => Status = "Completed" /\ evaluation # None /\ evaluation # <<>>)
    /\ [][Status # "Completed" /\ Status' = "Completed"
            => lastOp' = "submit" /\ question_count' = QuestionTarget]_vars

\* C3 as stated: current_question is non-none exactly when the status is
\* Active and fewer than 7 answers are recorded.
C3_QuestionIffActive ==
    (current_question # None) <=> (Status = "Active" /\ question_count < QuestionTarget)

\* C3 as amended: current_question is non-none whenever the status is Active;
\* it is none only in Idle with nothing recorded, before the first
\* startSession, and so is not cleared by completion or by resetSession.
C3_ActiveHasQuestion ==
    /\ Status = "Active" => current_question # None
    /\ current_question = None
         => Status = "Idle" /\ chat_history = <<>> /\ sessionRole = None

C3_Witness ==
    /\ Status = "Completed"
    /\ lastOp = "submit"
    /\ current_question # None

\* C4 as stated: resetSession takes effect only from Completed and yields Idle,
\* an empty transcript and no evaluation report.
C4_ResetEmptiesTranscript ==
    [][lastOp' = "reset"
         => /\ Status = "Completed"
            /\ Status' = "Idle"
            /\ chat_history' = <<>>
            /\ evaluation' = None]_vars

\* C4 as amended: resetSession takes effect only from Completed and yields Idle
\* and no evaluation report; the transcript and question_count stay as they
\* were (the next startSession discards them).
C4_ResetKeepsTranscript ==
    [][lastOp' = "reset"
         => /\ Status = "Completed"
            /\ Status' = "Idle"
            /\ evaluation' = None
            /\ chat_history' = chat_history
            /\ question_count' = question_count]_vars

C4_Witness ==
    /\ lastOp = "reset"
    /\ prevStatus = "Completed"
    /\ Status = "Idle"
    /\ Len(chat_history) >= QuestionTarget

\* C5 as stated: the only transitions are Idle -> Active by startSession,
\* Active -> Active by a submitAnswer leaving fewer than 7 answers,
\* Active -> Completed by the 7th submitAnswer, Completed -> Idle by
\* resetSession.
C5_OnlySpecTransitions ==
    [][/\ StartTookEffect(calls', lastOp') => Status = "Idle" /\ Status' = "Active"
       /\ lastOp' = "submit"
            => /\ Status = "Active"
               /\ IF question_count' < QuestionTarget
                  THEN Status' = "Active"
                  ELSE question_count' = QuestionTarget /\ Status' = "Completed"
       /\ lastOp' = "reset" => Status = "Completed" /\ Status' = "Idle"
       /\ ~StartTookEffect(calls', lastOp') /\ lastOp' \notin {"submit", "reset"}
            => Status' = Status]_vars

\* C5 as amended: the only transitions are any status -> Active by a
\* startSession with a credential configured; Active -> Active by a
\* submitAnswer that leaves fewer than 7 answers or whose report is empty;
\* Active -> Completed by a submitAnswer that records the 7th or a later
\* answer and gets a non-empty report; Completed -> Idle by resetSession.
C5_OnlyCodeTransitions ==
    [][/\ StartTookEffect(calls', lastOp') => Truthy(api_key) /\ Status' = "Active"
       /\ lastOp' = "submit"
            => /\ Status = "Active"
               /\ LET ev == CallsTo(calls', "evaluate_interview") IN
                  IF question_count' >= QuestionTarget /\ ev # <<>> /\ ev[1].result # <<>>
                  THEN Status' = "Completed"
                  ELSE Status' = "Active"
       /\ lastOp' = "reset" => Status = "Completed" /\ Status' = "Idle"
       /\ ~StartTookEffect(calls', lastOp') /\ lastOp' \notin {"submit", "reset"}
            => Status' = Status]_vars

C5_Witness ==
    /\ StartTookEffect(calls, lastOp)
    /\ prevStatus = "Completed"
    /\ Status = "Active"

\* C6: startSession with no credential leaves the session state unchanged
\* (the status stays Idle), reports an error and does not call the question
\* generator.
C6_NoCredentialNoStart ==
    [][lastOp' = "start" /\ api_key \in {None, <<>>}
         => /\ UNCHANGED session_state
            /\ Status = "Idle" /\ Status' = "Idle"
            /\ CallsTo(calls', "st.error") # <<>>
            /\ CallsTo(calls', "get_ai_question") = <<>>]_vars

C6_Witness ==
    /\ lastOp = "start"
    /\ api_key = <<>>
    /\ CallsTo(calls, "st.error") # <<>>
    /\ Status = "Idle"

\* C7: every call of the question generator, the evaluator and the archiver
\* gets the role that was selected when startSession ran.
C7_RoleFixedForSession ==
    \A i \in 1..Len(calls) :
        calls[i].fn \in {"get_ai_question", "evaluate_interview", "save_session"}
            => calls[i].profile = sessionRole

\* C8: a started session that keeps receiving answers is Completed once 7
\* answers are recorded, and only then, whatever calls failed.
C8_CompletesAfterSeven ==
    /\ question_count >= QuestionTarget => Status # "Active"
    /\ Status = "Completed" => question_count = QuestionTarget

\* C9: len(chat_history) equals question_count in every reachable state.
C9_LenIsCount == Len(chat_history) = question_count

C9_Witness ==
    /\ lastOp = "reset"
    /\ question_count = QuestionTarget
    /\ Len(chat_history) = QuestionTarget

\* C10: submitAnswer happens in an Active session and appends one exchange,
\* (current_question before the call, text returned by transcribe_audio), to
\* the end of the transcript; nothing but startSession changes the transcript
\* otherwise.
C10_AppendOnly ==
    [][/\ lastOp' = "submit"
            => /\ Status = "Active"
               /\ CallsTo(calls', "transcribe_audio") # <<>>
               /\ calls'[1].fn = "transcribe_audio"
               /\ chat_history'
                    = Append(chat_history, <<current_question, calls'[1].result>>)
       /\ lastOp' \notin {"submit", "start"} => chat_history' = chat_history]_vars

C10_Witness ==
    /\ lastOp = "submit"
    /\ Len(chat_history) = 3
    /\ chat_history[1] # chat_history[2]
    /\ chat_history[2] # chat_history[3]
    /\ chat_history[3][2] = calls[1].result

\* a text that starts with the token p
HasPrefix(t, p) == t # <<>> /\ Head(t) = p

\* C11: the evaluator is invoked once, with the full 7-exchange transcript,
\* and the archiver once after it, with the same role, the same transcript and
\* the report the evaluator returned; neither is invoked while fewer than 7
\* answers are recorded, nor the archiver without the evaluator.
C11_EvaluateThenArchiveOnce ==
    LET ev == CallsTo(calls, "evaluate_interview")
        sv == CallsTo(calls, "save_session")
    IN
    /\ Len(ev) <= 1 /\ Len(sv) <= 1
    /\ question_count < QuestionTarget => ev = <<>> /\ sv = <<>>
    /\ sv # <<>> => ev # <<>>
    /\ ev # <<>>
         => /\ Len(ev[1].history) = QuestionTarget
            /\ ev[1].history = chat_history
            /\ sv # <<>>
            /\ calls[Len(calls) - 1] = ev[1] /\ calls[Len(calls)] = sv[1]
            /\ sv[1].profile = ev[1].profile
            /\ sv[1].history = ev[1].history
            /\ sv[1].result.data.evaluation = ev[1].result

\* C12: when the model call of the question generator fails, the generator
\* returns a string prefixed "Error generating question: ", that string
\* becomes current_question for the question that follows the answers
\* recorded so far, and the next submitAnswer records it as the question of
\* its exchange.
C12_GeneratorErrorBecomesQuestion ==
    [][LET g == CallsTo(calls', "get_ai_question")
           m == CallsTo(calls', "chain.invoke")
       IN
       /\ g # <<>> /\ m # <<>> /\ m[1].raised
            => /\ ~g[1].raised
               /\ HasPrefix(g[1].result, "Error generating question: ")
               /\ current_question' = g[1].result
               /\ Len(g[1].history) = question_count'
       /\ lastOp' = "submit" /\ HasPrefix(current_question, "Error generating question: ")
            => /\ question_count' = question_count + 1
               /\ chat_history'[question_count'][1] = current_question]_vars

C12_Witness ==
    /\ lastOp = "submit"
    /\ question_count = 3
    /\ HasPrefix(chat_history[3][1], "Error generating question: ")
    /\ ~HasPrefix(chat_history[2][1], "Error generating question: ")

\* C14: when the archival write of the 7th submitAnswer fails, the session is
\* Completed, with the report the evaluator returned and all 7 exchanges.
C14_ArchiveFailureStillCompletes ==
    LET ev == CallsTo(calls, "evaluate_interview")
        sv == CallsTo(calls, "save_session")
    IN
    sv # <<>> /\ sv[1].raised /\ question_count = QuestionTarget
        => /\ Status = "Completed"
           /\ evaluation = ev[1].result
           /\ Len(chat_history) = QuestionTarget

\* C15: while the session is Completed, nothing but startSession and
\* resetSession changes the transcript, the report or question_count, and no
\* submitAnswer runs.
C15_CompletedIsReadOnly ==
    [][Status = "Completed"
         => /\ lastOp' \notin {"submit", "submit_aborted", "record"}
            /\ lastOp' \notin {"start", "reset"}
                 => UNCHANGED <<chat_history, evaluation, question_count>>]_vars

C15_Witness ==
    /\ prevStatus = "Completed"
    /\ lastOp = "select"
    /\ Status = "Completed"
    /\ Len(chat_history) = QuestionTarget

\* C19: a startSession that takes effect calls the generator once, with the
\* empty transcript; a submitAnswer that leaves fewer than 7 answers calls it
\* once, with the transcript including the exchange just appended; no other
\* script run calls it, in particular not the 7th submitAnswer or a later one.
C19_GeneratorCalls ==
    [][LET g == CallsTo(calls', "get_ai_question") IN
       /\ lastOp' = "start" /\ Truthy(api_key)
            => Len(g) = 1 /\ g[1].history = <<>>
       /\ lastOp' = "submit" /\ question_count' < QuestionTarget
            => /\ Len(g) = 1
               /\ g[1].history = chat_history'
               /\ SubSeq(g[1].history, 1, question_count) = chat_history
               /\ Len(g[1].history) = question_count + 1
       /\ lastOp' = "submit" /\ question_count' >= QuestionTarget => g = <<>>
       /\ lastOp' = "start" /\ ~Truthy(api_key) => g = <<>>
       /\ lastOp' \notin {"start", "submit"} => g = <<>>]_vars

C19_Witness ==
    /\ lastOp = "submit"
    /\ question_count = QuestionTarget - 1
    /\ CallsTo(calls, "get_ai_question") # <<>>
    /\ CallsTo(calls, "get_ai_question")[1].history = chat_history

\* C20: with a credential configured Start Interview is enabled in every
\* state, and yields the fresh state: active, empty transcript, question_count
\* 0, no report, current_question from one generator call on the empty
\* transcript, and no call of the evaluator or the archiver.
C20_StartAlwaysRestarts ==
    /\ [](Truthy(api_key) => ENABLED StartInterview)
    /\ [][lastOp' = "start" /\ Truthy(api_key)
            => LET g == CallsTo(calls', "get_ai_question") IN
               /\ Status' = "Active"
               /\ interview_active'
               /\ chat_history' = <<>>
               /\ question_count' = 0
               /\ evaluation' = None
               /\ Len(g) = 1 /\ g[1].history = <<>>
               /\ current_question' = g[1].result
               /\ CallsTo(calls', "evaluate_interview") = <<>>
               /\ CallsTo(calls', "save_session") = <<>>]_vars

C20_Witness ==
    /\ lastOp = "start"
    /\ prevStatus = "Active"
    /\ Status = "Active"
    /\ audio # None
    /\ chat_history = <<>>

\* r is raw without its leading and trailing whitespace
IsTrimOf(r, raw) ==
    /\ r # <<>> => Head(r) \notin Whitespace /\ r[Len(r)] \notin Whitespace
    /\ \E i \in 0..Len(raw) : \E j \in i..Len(raw) :
         /\ r = SubSeq(raw, i + 1, j)
         /\ \A k \in 1..i : raw[k] \in Whitespace
         /\ \A k \in (j + 1)..Len(raw) : raw[k] \in Whitespace

\* C13: transcribe_audio never ends in an exception; when the primary tier
\* did not succeed and a step of the legacy tier fails, it returns the
\* formatted error string.
C13_TranscribeNeverRaises ==
    /\ tr.pc # "raised"
    /\ tr.pc = "returned" /\ tr.legacy = 1
         /\ (tr.path.tmp = "raise" \/ tr.path.recognize = "raise")
         => HasPrefix(tr.result, "Error transcribing audio: ")

\* C17: when a call that entered the legacy tier has ended, os.remove has
\* been tried on every temporary file the call created.
C17_TempFilesRemoved ==
    tr.pc \in {"returned", "raised"} /\ tr.legacy = 1
        => tr.created \subseteq tr.remove_tried

\* C18: the primary tier runs at most once and only with a credential, the
\* legacy tier at most once and only without a credential or after the
\* primary tier raised; a call whose primary tier succeeds returns its text
\* trimmed and neither enters the legacy tier nor creates a temporary file.
C18_TiersInOrderOnce ==
    /\ tr.primary <= 1 /\ tr.legacy <= 1
    /\ tr.primary = 1 => Truthy(api_key)
    /\ tr.legacy = 1
         => ~Truthy(api_key) \/ (tr.primary = 1 /\ tr.path.primary = "raise")
    /\ tr.pc \in {"legacy", "tmp", "convert", "recognize", "cleanup"}
         => tr.path.primary # "ok"
    /\ tr.primary = 1 /\ tr.path.primary = "ok"
         => /\ tr.pc = "returned"
            /\ IsTrimOf(tr.result, tr.path.raw)
            /\ tr.legacy = 0
            /\ tr.created = {}

C18_Witness ==
    /\ tr.pc = "returned"
    /\ tr.primary = 1
    /\ tr.path.raw = <<" ", "a", "\n">>
    /\ tr.result = <<"a">>

\* C16: the record a completed session wrote stays in data/ as written,
\* whatever other sessions complete, also within the same second and with
\* the same role.
C16_RecordsNeverOverwritten ==
    \A u \in Users : \A i \in 1..Len(sessions[u]) :
        ~sessions[u][i].raised
            => [name |-> sessions[u][i].filename, data |-> sessions[u][i].data]
                   \in files

====
